---- MODULE Spec2Model ----
(***************************************************************************)
(* RecroAI: LLM-backed candidate evaluation.                               *)
(*                                                                         *)
(* State machine of the scoring router (score, score-all), the             *)
(* authenticity router (check-authenticity), the job router (create,       *)
(* delete), the candidate upload, and the two scoring clients, over the    *)
(* tables candidate_scores and authenticity_flags.                         *)
(*                                                                         *)
(* Numbers: total scores are the floats 0..100 (integers here); risk       *)
(* scores are in thousandths (0.9 is 900), the LLM scores are multiples of *)
(* 0.005 so that 0.4*h + 0.6*l and round(..., 3) are exact.                *)
(* Optional values: None is the empty sequence, a present value v is <<v>>.*)
(***************************************************************************)
EXTENDS Integers, Sequences, FiniteSets, TLC

VARIABLES
    apiKey,      \* OPENAI_API_KEY is configured (read once per process)
    profile,     \* candidates of the caller's company: profile[c] is raw_profile of id c
    jobs,        \* jobs of the caller's company
    scores,      \* table candidate_scores (committed rows)
    flags,       \* table authenticity_flags (committed rows)
    sa,          \* locals of the score-all request in progress
    resp,        \* what the most recent request returned (Pending while it runs)
    did,         \* what that request did: completion calls issued, errors collected
    client,      \* the scoring-client invocation made by the last step, if any
    call,        \* the service function invoked on its own: its name, input, outcome
    req          \* the requests that run side by side: locals and session of each

vars == <<apiKey, profile, jobs, scores, flags, sa, resp, did, client, call, req>>

\* ------------------------------------------------------------------ bounds
MaxCand == 2

\* ------------------------------------------------------------------ values
None == << >>
Some(v) == <<v>>

Min(a, b) == IF a < b THEN a ELSE b
Max(S) == CHOOSE x \in S : \A y \in S : y <= x

JobIds == {"job"}            \* the job ids the caller's company can own
RequestJobIds == {"job", "other"}   \* "other": no job of the caller's company

Candidates == 1 .. Len(profile)

\* raw_profile, as the authenticity scan sees it: is it blank, how many of the
\* HIGH_RISK_PATTERNS match, how many of the SUSPICIOUS_KEYWORDS match
TextClean == [empty |-> FALSE, high |-> 0, all |-> 0]
TextInject == [empty |-> FALSE, high |-> 1, all |-> 1]
ProfileTexts == {TextInject}


\* --------------------------------------------------- authenticity service
\* mutant of KeywordHeuristicCheck: the high-risk patterns count as any other
KeywordHeuristicCheckNoHighRisk(text) ==
    IF text.all > 0
    THEN [susp |-> TRUE, score |-> IF 500 + text.all * 100 < 850
                                   THEN 500 + text.all * 100 ELSE 850]
    ELSE [susp |-> FALSE, score |-> 0]

\* mutant of KeywordHeuristicCheck: the medium-risk score has no ceiling of 0.85
KeywordHeuristicCheckNoCeiling(text) ==
    IF text.high > 0
    THEN [susp |-> TRUE, score |-> Min(900 + text.high * 50, 1000)]
    ELSE IF text.all > 0
         THEN [susp |-> TRUE, score |-> Min(500 + text.all * 100, 1000)]
         ELSE [susp |-> FALSE, score |-> 0]

\* AuthenticityService._keyword_heuristic_check: (is_suspicious, risk_score)
KeywordHeuristicCheck(text) ==
    IF text.high > 0
    THEN [susp |-> TRUE, score |-> Min(900 + text.high * 50, 1000)]
    ELSE IF text.all > 0
         THEN [susp |-> TRUE, score |-> Min(500 + text.all * 100, 850)]
         ELSE [susp |-> FALSE, score |-> 0]

\* What the completion endpoint answers to the authenticity prompt: "fail" is a
\* transport error, a non-2xx status or an unparseable body; "ok" is a parsed
\* document with its is_suspicious and risk_score.
AuthFail == [kind |-> "fail", susp |-> FALSE, score |-> 0]
AuthDoc(s, l) == [kind |-> "ok", susp |-> s, score |-> l]
AuthOracle == {AuthFail, AuthDoc(TRUE, 1000), AuthDoc(FALSE, 2000)}
\* the answers given while score-all runs: a verdict, and a risk_score that the
\* result type refuses
BatchAuthOracle == {AuthDoc(TRUE, 1000), AuthDoc(FALSE, 2000)}

\* mutant of LlmClassification: a failed completion counts as suspicious
LlmClassificationFailClosed(key, r) ==
    IF ~key
    THEN [susp |-> FALSE, score |-> 0, called |-> FALSE,
          reason |-> "LLM classification unavailable (no API key)"]
    ELSE IF r.kind = "ok"
         THEN [susp |-> r.susp, score |-> r.score, called |-> TRUE,
               reason |-> "reason of the model"]
         ELSE [susp |-> TRUE, score |-> 1000, called |-> TRUE,
               reason |-> "LLM classification failed"]

\* AuthenticityService._llm_classification: (is_suspicious, risk_score), and
\* whether a completion call was issued
LlmClassification(key, r) ==
    IF ~key
    THEN [susp |-> FALSE, score |-> 0, called |-> FALSE,
          reason |-> "LLM classification unavailable (no API key)"]
    ELSE IF r.kind = "ok"
         THEN [susp |-> r.susp, score |-> r.score, called |-> TRUE,
               reason |-> "reason of the model"]
         ELSE [susp |-> FALSE, score |-> 0, called |-> TRUE,
               reason |-> "LLM classification failed"]

\* AuthenticityResult: the pydantic model refuses a risk_score outside [0,1]
AuthenticityResultOk(risk) == 0 <= risk /\ risk <= 1000

\* AuthenticityService.analyze_text.  ok = FALSE: the call raised.
\* mutant of AnalyzeText: the test for empty text is gone
AnalyzeTextNoEmptyTest(text, use_llm, key, r) ==
    LET h == KeywordHeuristicCheck(text)
        l == IF use_llm THEN LlmClassification(key, r)
             ELSE [susp |-> FALSE, score |-> 0, called |-> FALSE,
                   reason |-> "LLM classification disabled"]
        combined == IF use_llm /\ key
                    THEN (h.score * 4 + l.score * 6) \div 10
                    ELSE h.score
        suspicious == IF use_llm /\ key THEN h.susp \/ l.susp ELSE h.susp
    IN  [ok |-> 0 <= combined /\ combined <= 1000,
         is_suspicious |-> suspicious /\ combined > 300,
         risk_score |-> combined, called |-> l.called,
         reason |-> IF use_llm /\ key THEN "heuristics and LLM analysis"
                    ELSE "heuristics",
         scanned |-> TRUE, heuristic |-> h, llm |-> l]

\* mutant of AnalyzeText: the weights of the two stages are exchanged
AnalyzeTextWeightsExchanged(text, use_llm, key, r) ==
    IF text.empty
    THEN [ok |-> TRUE, is_suspicious |-> FALSE, risk_score |-> 0, called |-> FALSE,
          reason |-> "Empty text provided", scanned |-> FALSE,
          heuristic |-> [susp |-> FALSE, score |-> 0],
          llm |-> [susp |-> FALSE, score |-> 0, called |-> FALSE, reason |-> "not run"]]
    ELSE LET h == KeywordHeuristicCheck(text)
             l == IF use_llm THEN LlmClassification(key, r)
                  ELSE [susp |-> FALSE, score |-> 0, called |-> FALSE,
                        reason |-> "LLM classification disabled"]
             combined == IF use_llm /\ key
                         THEN (h.score * 6 + l.score * 4) \div 10
                         ELSE h.score
             suspicious == IF use_llm /\ key THEN h.susp \/ l.susp ELSE h.susp
             reason == IF use_llm /\ key THEN "heuristics and LLM analysis"
                       ELSE "heuristics"
         IN  IF AuthenticityResultOk(combined)
             THEN [ok |-> TRUE, is_suspicious |-> suspicious /\ combined > 300,
                   risk_score |-> combined, called |-> l.called,
                   reason |-> reason, scanned |-> TRUE, heuristic |-> h, llm |-> l]
             ELSE [ok |-> FALSE, is_suspicious |-> FALSE, risk_score |-> 0,
                   called |-> l.called,
                   reason |-> "ValidationError", scanned |-> TRUE,
                   heuristic |-> h, llm |-> l]

\* mutant of AnalyzeText: the final decision looks at the combined score only
AnalyzeTextScoreOnly(text, use_llm, key, r) ==
    IF text.empty
    THEN [ok |-> TRUE, is_suspicious |-> FALSE, risk_score |-> 0, called |-> FALSE,
          reason |-> "Empty text provided", scanned |-> FALSE,
          heuristic |-> [susp |-> FALSE, score |-> 0],
          llm |-> [susp |-> FALSE, score |-> 0, called |-> FALSE, reason |-> "not run"]]
    ELSE LET h == KeywordHeuristicCheck(text)
             l == IF use_llm THEN LlmClassification(key, r)
                  ELSE [susp |-> FALSE, score |-> 0, called |-> FALSE,
                        reason |-> "LLM classification disabled"]
             combined == IF use_llm /\ key
                         THEN (h.score * 4 + l.score * 6) \div 10
                         ELSE h.score
             reason == IF use_llm /\ key THEN "heuristics and LLM analysis"
                       ELSE "heuristics"
         IN  IF AuthenticityResultOk(combined)
             THEN [ok |-> TRUE, is_suspicious |-> combined > 300,
                   risk_score |-> combined, called |-> l.called,
                   reason |-> reason, scanned |-> TRUE, heuristic |-> h, llm |-> l]
             ELSE [ok |-> FALSE, is_suspicious |-> FALSE, risk_score |-> 0,
                   called |-> l.called,
                   reason |-> "ValidationError", scanned |-> TRUE,
                   heuristic |-> h, llm |-> l]

\* Besides the result: called (a completion call was issued), scanned (the
\* heuristic scan ran), heuristic and llm (what the two stages returned).
NoStage == [susp |-> FALSE, score |-> 0, called |-> FALSE, reason |-> "not run"]
AnalyzeText(text, use_llm, key, r) ==
    IF text.empty
    THEN [ok |-> TRUE, is_suspicious |-> FALSE, risk_score |-> 0, called |-> FALSE,
          reason |-> "Empty text provided", scanned |-> FALSE,
          heuristic |-> [susp |-> FALSE, score |-> 0], llm |-> NoStage]
    ELSE LET h == KeywordHeuristicCheck(text)
             l == IF use_llm THEN LlmClassification(key, r)
                  ELSE [susp |-> FALSE, score |-> 0, called |-> FALSE,
                        reason |-> "LLM classification disabled"]
             combined == IF use_llm /\ key
                         THEN (h.score * 4 + l.score * 6) \div 10
                         ELSE h.score
             suspicious == IF use_llm /\ key THEN h.susp \/ l.susp ELSE h.susp
             reason == IF use_llm /\ key THEN "heuristics and LLM analysis"
                       ELSE "heuristics"
         IN  IF AuthenticityResultOk(combined)
             THEN [ok |-> TRUE, is_suspicious |-> suspicious /\ combined > 300,
                   risk_score |-> combined, called |-> l.called,
                   reason |-> reason, scanned |-> TRUE, heuristic |-> h, llm |-> l]
             ELSE [ok |-> FALSE, is_suspicious |-> FALSE, risk_score |-> 0,
                   called |-> l.called,
                   reason |-> "ValidationError", scanned |-> TRUE,
                   heuristic |-> h, llm |-> l]

\* -------------------------------------------------------- scoring contract
\* A completion, as the scoring clients see it.  kind: "transport" (the request
\* failed), "status" (non-2xx), "badjson" (the content is no JSON document),
\* "doc" (a JSON document).  A document: total_score (None when absent), the
\* category_scores mapping (key -> score), whether its values are objects
\* {score, reasoning} (nested) or bare values, the length of every reasoning
\* and the length of explanation (None when absent); strengths: the number
\* of entries of the strengths and of the weaknesses list (None when the two
\* keys are absent).
\* A score is a JSON value: a number, a string that spells a number ("85"),
\* any other string, or a boolean (json.loads gives True or False, which
\* Python counts as the integers 1 and 0).
Num(n) == [t |-> "number", v |-> n]
NumStr(n) == [t |-> "numstr", v |-> n]
Str == [t |-> "string", v |-> 0]
Bool(b) == [t |-> "boolean", v |-> IF b THEN 1 ELSE 0]

RequiredCategoryKeys == {"skills_score", "experience_score", "education_score",
                         "company_match_score"}

NoDoc == [total_score |-> None, category_scores |-> << >>, nested |-> FALSE,
          reasoning |-> 0, explanation |-> None, strengths |-> None]
Completion(k, d) == [kind |-> k, doc |-> d]
JsonDoc(t, cats, n, r, e) ==
    [total_score |-> t, category_scores |-> cats, nested |-> n, reasoning |-> r,
     explanation |-> e, strengths |-> None]
\* a completion whose document holds numbers: total_score t, category scores cats
Doc(t, cats, n, r, e) ==
    Completion("doc", JsonDoc(Some(Num(t)), [k \in DOMAIN cats |-> Num(cats[k])],
                              n, r, Some(e)))

OpenCats(s) == [k \in {"Technical Skills", "Experience"} |-> s]
FixedCats(s) == [k \in RequiredCategoryKeys |-> s]

InRange(v) == 0 <= v /\ v <= 100

\* isinstance(v, (int, float)): bool is a subclass of int
IsNumber(x) == x.t \in {"number", "boolean"}
\* a pydantic float field (lax mode): numbers, booleans and strings that spell
\* a number are converted to float, then ge and le are applied
FloatField(x) == x.t \in {"number", "numstr", "boolean"} /\ InRange(x.v)

\* ScoringResponse(**json_data): the pydantic schema of the service client
ScoringResponseOk(d) ==
    /\ d.total_score # None
    /\ FloatField(d.total_score[1])
    /\ d.nested
    /\ \A k \in DOMAIN d.category_scores : FloatField(d.category_scores[k])
    /\ (DOMAIN d.category_scores # {} => d.reasoning >= 10)
    /\ d.explanation # None
    /\ d.explanation[1] >= 50

\* The object ScoringResponse(**json_data) builds of an accepted document:
\* total_score and every category score converted to float, strengths and
\* weaknesses from default_factory = list when the document has none.
ScoringResponseResult(d) ==
    [total_score |-> Some(Num(d.total_score[1].v)),
     category_scores |-> [k \in DOMAIN d.category_scores |->
                             Num(d.category_scores[k].v)],
     explanation |-> d.explanation,
     strengths |-> IF d.strengths = None THEN Some(0) ELSE d.strengths]

\* What score_candidate of backend/scoring_service.py returns after
\* validate_scoring_payload(data): data itself
ValidateScoringPayloadResult(d) ==
    [total_score |-> d.total_score, category_scores |-> d.category_scores,
     explanation |-> d.explanation, strengths |-> d.strengths]

\* no result: the validation raised
NoResult == [total_score |-> None, category_scores |-> << >>, explanation |-> None,
             strengths |-> None]

\* mutant of ValidateScoringPayload: the key test lets missing keys pass
ValidateScoringPayloadSubset(d) ==
    /\ d.total_score # None
    /\ d.explanation # None
    /\ DOMAIN d.category_scores \subseteq {"skills_score", "experience_score",
                                          "education_score", "company_match_score"}
    /\ ~d.nested
    /\ \A k \in DOMAIN d.category_scores :
          d.category_scores[k].t \in {"number", "boolean"}
          /\ 0 <= d.category_scores[k].v /\ d.category_scores[k].v <= 100
    /\ d.total_score[1].t \in {"number", "boolean"}
    /\ 0 <= d.total_score[1].v /\ d.total_score[1].v <= 100

\* validate_scoring_payload: the fixed-key validator of the standalone client
ValidateScoringPayload(d) ==
    /\ d.total_score # None
    /\ d.explanation # None
    /\ DOMAIN d.category_scores = RequiredCategoryKeys
    /\ ~d.nested
    /\ \A k \in DOMAIN d.category_scores :
          IsNumber(d.category_scores[k]) /\ InRange(d.category_scores[k].v)
    /\ IsNumber(d.total_score[1]) /\ InRange(d.total_score[1].v)

\* The answers the completion endpoint gives in this model
ValidTotals == {0, 90}
ScoreOracle ==
    {Completion("transport", NoDoc), Completion("status", NoDoc),
     Completion("badjson", NoDoc)}
    \cup {Doc(t, OpenCats(50), TRUE, 20, 60) : t \in ValidTotals \cup {101}}
    \cup {Doc(90, FixedCats(50), FALSE, 0, 60)}

\* ---------------------------------------------------------- scoring clients
\* The outcome of one completion for the caller: a result or the error raised
Failure(e) == [ok |-> FALSE, total_score |-> None, error |-> e]
Success(t) == [ok |-> TRUE, total_score |-> Some(t), error |-> "none"]

\* mutant of ServiceScoreCandidate: a failed completion is tried once more
ServiceScoreCandidateRetry(r) ==
    IF r.kind = "doc" /\ r.doc.total_score # None /\ r.doc.total_score[1].v \in 0 .. 100
       /\ r.doc.nested /\ r.doc.explanation # None /\ r.doc.explanation[1] >= 50
    THEN [calls |-> 1, out |-> [ok |-> TRUE, total_score |-> <<r.doc.total_score[1].v>>,
                                error |-> "none"]]
    ELSE [calls |-> 2, out |-> [ok |-> FALSE, total_score |-> << >>,
                                error |-> "failed twice"]]

\* LLMScoringService.score_candidate.  r: what the endpoint answers to a
\* completion call of this invocation.  calls: completion calls issued.
ServiceScoreCandidate(r) ==
    LET out == CASE r.kind = "transport" -> Failure("LLM API request failed")
                 [] r.kind = "status" -> Failure("LLM API error")
                 [] r.kind = "badjson" -> Failure("Invalid JSON response from LLM")
                 [] OTHER -> IF ScoringResponseOk(r.doc)
                             THEN Success(r.doc.total_score[1].v)
                             ELSE Failure("JSON response doesn't match schema")
    IN [calls |-> 1, out |-> out]

\* score_candidate of backend/scoring_service.py (get_client, one
\* chat.completions.create, json.loads, validate_scoring_payload)
StandaloneScoreCandidate(key, r) ==
    IF ~key
    THEN [calls |-> 0, out |-> Failure("Cannot score candidate")]
    ELSE LET out == CASE r.kind \in {"transport", "status"} -> Failure("APIError")
                      [] r.kind = "badjson" -> Failure("JSONDecodeError")
                      [] OTHER -> IF ValidateScoringPayload(r.doc)
                                  THEN Success(r.doc.total_score[1].v)
                                  ELSE Failure("ValueError")
         IN [calls |-> 1, out |-> out]

\* the scoring-client invocation made by a step; NoClient: the step made none
ClientRun(which, key, run) ==
    [which |-> which, key |-> key, calls |-> run.calls, out |-> run.out]
NoClient == [which |-> "none", key |-> FALSE, calls |-> 0, out |-> Failure("none")]

\* no service function was invoked on its own
NoCall == [fn |-> "none"]

\* get_scoring_service / LLMScoringService.__init__: raises without a key
GetScoringServiceOk(key) == key


\* ------------------------------------------------------------------ tables
ScoreRow(i, c, j, t) == [id |-> i, candidate_id |-> c, job_id |-> j, total_score |-> t]
FlagRow(i, c, a) ==
    [id |-> i, candidate_id |-> c, is_suspicious |-> a.is_suspicious,
     risk_score |-> a.risk_score]

\* NULL in the total_score column, which the analytics queries filter out
\* (total_score.isnot(None)): a number that no score takes
NULL == -1
\* existing_score.total_score as Python reads it: None for NULL
ColumnValue(t) == IF t = NULL THEN None ELSE Some(t)

\* the id an INSERT gets (integer primary key of the default SQLite database)
NextId(rows) == IF rows = {} THEN 1 ELSE Max({r.id : r \in rows}) + 1

\* mutants of ScoresOf: the filter takes the rows of other jobs; the lookup finds nothing
ScoresOfOtherJob(rows, c, j) == {r \in rows : r.candidate_id = c /\ r.job_id # j}
ScoresOfNothing(rows, c, j) == {}

\* db.query(CandidateScore).filter(candidate_id == c, job_id == j)
ScoresOf(rows, c, j) == {r \in rows : r.candidate_id = c /\ r.job_id = j}
\* db.query(AuthenticityFlag).filter(candidate_id == c)
FlagsOf(rows, c) == {r \in rows : r.candidate_id = c}
\* .first()
First(rows) == CHOOSE r \in rows : \A q \in rows : r.id <= q.id

\* mutant of UpsertFlag: a re-analysis adds a flag instead of updating
UpsertFlagAppend(rows, c, a) == rows \cup {FlagRow(NextId(rows), c, a)}

\* create-or-update of the candidate's flag, as both routers do it
UpsertFlag(rows, c, a) ==
    IF FlagsOf(rows, c) # {}
    THEN LET old == First(FlagsOf(rows, c))
         IN  (rows \ {old}) \cup {FlagRow(old.id, c, a)}
    ELSE rows \cup {FlagRow(NextId(rows), c, a)}

FlagIdOf(rows, c) == First(FlagsOf(rows, c)).id

\* --------------------------------------------------------------- score-all
Item(c) == [candidate_id |-> c, total_score |-> None, score_id |-> None,
            is_suspicious |-> None, risk_score |-> None, flag_id |-> None]

ErrorEntry(stage, c) == [stage |-> stage, candidate_id |-> c]

SaIdle == [pc |-> "idle", job |-> "job", todo |-> << >>, cur |-> Item(0),
           items |-> << >>, candidates_scored |-> 0, candidates_checked |-> 0,
           errors |-> << >>, sessScores |-> {}, sessFlags |-> {},
           score_calls |-> {}, auth_calls |-> {}]

\* the requests that can be in progress side by side
Requests == {"a", "b"}
\* a request slot: pc "idle" (no request), "auth" / "score" (score-all waits for
\* the authenticity check / the scoring client of the candidate Head(todo)),
\* "single" (POST /scoring/score waits for the scoring client), "done" (the
\* response is out).  sessScores, sessFlags: rows added or changed in the
\* request's session and not committed.  broken: a flush of the session failed
\* and no rollback was issued since.  scored, checked, visited, errors: what
\* the request did for which candidate.
ReqIdle == [pc |-> "idle", op |-> "none", job |-> "job", cand |-> 0, todo |-> << >>,
            sessScores |-> {}, sessFlags |-> {}, broken |-> FALSE,
            scored |-> {}, checked |-> {}, visited |-> {}, errors |-> {},
            status |-> 0]
NoRequests == [r \in Requests |-> ReqIdle]

\* the log of a finished request
Log(score_calls, auth_calls, errors) ==
    [score_calls |-> score_calls, auth_calls |-> auth_calls, errors |-> errors]
NoLog == Log({}, {}, << >>)

\* mutant of SortKey: a missing score counts as 0
SortKeyZero(item) == IF item.total_score # None THEN item.total_score[1] ELSE 0

\* key of candidates_with_scores.sort(...)
SortKey(item) == IF item.total_score # None THEN item.total_score[1] ELSE -1

\* mutant of InsertDesc: an item goes before the items of equal key
RECURSIVE InsertDescUnstable(_, _)
InsertDescUnstable(sorted, item) ==
    IF sorted = << >> THEN <<item>>
    ELSE IF SortKey(Head(sorted)) > SortKey(item)
         THEN <<Head(sorted)>> \o InsertDescUnstable(Tail(sorted), item)
         ELSE <<item>> \o sorted

\* list.sort(key, reverse=True): stable, descending
RECURSIVE InsertDesc(_, _)
InsertDesc(sorted, item) ==
    IF sorted = << >> THEN <<item>>
    ELSE IF SortKey(Head(sorted)) >= SortKey(item)
         THEN <<Head(sorted)>> \o InsertDesc(Tail(sorted), item)
         ELSE <<item>> \o sorted

RECURSIVE SortDesc(_)
SortDesc(items) ==
    IF items = << >> THEN << >>
    ELSE InsertDesc(SortDesc(SubSeq(items, 1, Len(items) - 1)), items[Len(items)])

\* the fields of BulkScoringResponse; error_count is the "(n errors occurred)"
\* part of message
\* mutant of BulkScoringResponse: one counter serves for both counts
BulkScoringResponseOneCounter(j, items, scored, checked, errors) ==
    [op |-> "scoreAll", status |-> 200, detail |-> "ok", job_id |-> j,
     candidates_scored |-> scored, candidates_checked |-> scored,
     candidates |-> items, error_count |-> Len(errors)]

BulkScoringResponse(j, items, scored, checked, errors) ==
    [op |-> "scoreAll", status |-> 200, detail |-> "ok", job_id |-> j,
     candidates_scored |-> scored, candidates_checked |-> checked,
     candidates |-> items, error_count |-> Len(errors)]

\* no response is on its way to the caller
NoResponse == [op |-> "none", status |-> 0, detail |-> "none"]
\* the server takes the next request: requests are served one after the other
Ready == sa.pc = "idle" /\ resp = NoResponse

\* no response yet: the request is in progress
Pending(op) == [op |-> op, status |-> 0, detail |-> "pending"]

HTTPException(op, code, detail) == [op |-> op, status |-> code, detail |-> detail]

RECURSIVE SeqOfSet(_)
SeqOfSet(S) == IF S = {} THEN << >>
               ELSE LET m == CHOOSE x \in S : \A y \in S : x <= y
                    IN <<m>> \o SeqOfSet(S \ {m})

\* job lookup, candidate query, services, locals (lines 206-242)
ScoreAllBegin(j) ==
    /\ Ready
    /\ UNCHANGED <<req, call, apiKey, profile, jobs, scores, flags>>
    /\ client' = NoClient
    /\ IF j \notin jobs
       THEN /\ resp' = HTTPException("scoreAll", 404, "Job not found")
            /\ did' = NoLog
            /\ UNCHANGED sa
       ELSE IF Candidates = {}
       THEN /\ resp' = HTTPException("scoreAll", 404, "No candidates found for this company")
            /\ did' = NoLog
            /\ UNCHANGED sa
       ELSE IF ~GetScoringServiceOk(apiKey)
       THEN /\ resp' = HTTPException("scoreAll", 500, "OPENAI_API_KEY must be set")
            /\ did' = NoLog
            /\ UNCHANGED sa
       ELSE /\ sa' = [SaIdle EXCEPT !.pc = "auth", !.job = j,
                         !.todo = SeqOfSet(Candidates),
                         !.cur = Item(Head(SeqOfSet(Candidates))),
                         !.sessScores = scores, !.sessFlags = flags]
            /\ resp' = Pending("scoreAll")
            /\ did' = NoLog

\* authenticity of the current candidate (lines 252-297)
ScoreAllAuth(oracle) ==
    /\ sa.pc = "auth"
    /\ \E r \in oracle :
         LET c == Head(sa.todo)
             a == AnalyzeText(profile[c], TRUE, apiKey, r)
             called == IF a.called THEN {c} ELSE {}
         IN  IF a.ok
             THEN LET rows == UpsertFlag(sa.sessFlags, c, a)
                  IN sa' = [sa EXCEPT !.pc = "score", !.sessFlags = rows,
                               !.cur = [Item(c) EXCEPT
                                          !.is_suspicious = Some(a.is_suspicious),
                                          !.risk_score = Some(a.risk_score),
                                          !.flag_id = Some(FlagIdOf(rows, c))],
                               !.candidates_checked = @ + 1,
                               !.auth_calls = @ \cup called]
             ELSE sa' = [sa EXCEPT !.pc = "score", !.cur = Item(c),
                            !.errors = Append(@, ErrorEntry("authenticity", c)),
                            !.auth_calls = @ \cup called]
    /\ UNCHANGED <<req, call, apiKey, profile, jobs, scores, flags, resp, did>>
    /\ client' = NoClient

\* mutant of Advance: the loop ends after an item without a score
AdvanceBreak(s) ==
    LET rest == IF s.items[Len(s.items)].total_score = None THEN << >> ELSE Tail(s.todo)
    IN [s EXCEPT !.todo = rest,
                 !.pc = IF rest = << >> THEN "finish" ELSE "auth",
                 !.cur = IF rest = << >> THEN Item(0) ELSE Item(Head(rest))]

\* where the loop goes after the current candidate's item is appended
Advance(s) ==
    LET rest == Tail(s.todo)
    IN [s EXCEPT !.todo = rest,
                 !.pc = IF rest = << >> THEN "finish" ELSE "auth",
                 !.cur = IF rest = << >> THEN Item(0) ELSE Item(Head(rest))]

\* scoring of the current candidate (lines 299-375)
ScoreAllScore(oracle) ==
    /\ sa.pc = "score"
    /\ LET c == Head(sa.todo)
           existing == ScoresOf(sa.sessScores, c, sa.job)
       IN  IF existing # {}
           THEN /\ sa' = Advance([sa EXCEPT
                            !.items = Append(@, [sa.cur EXCEPT
                                 !.total_score = ColumnValue(First(existing).total_score),
                                 !.score_id = Some(First(existing).id)])])
                /\ client' = NoClient
           ELSE \E r \in oracle :
                  LET run == ServiceScoreCandidate(r)
                      id == NextId(sa.sessScores)
                  IN  /\ client' = ClientRun("service", apiKey, run)
                      /\ IF run.out.ok
                         THEN sa' = Advance([sa EXCEPT
                                 !.sessScores = @ \cup
                                     {ScoreRow(id, c, sa.job, run.out.total_score[1])},
                                 !.items = Append(@, [sa.cur EXCEPT
                                     !.total_score = run.out.total_score,
                                     !.score_id = Some(id)]),
                                 !.candidates_scored = @ + 1,
                                 !.score_calls = @ \cup {c}])
                         ELSE sa' = Advance([sa EXCEPT
                                 !.items = Append(@, sa.cur),
                                 !.errors = Append(@, ErrorEntry("scoring", c)),
                                 !.score_calls = @ \cup {c}])
    /\ UNCHANGED <<req, call, apiKey, profile, jobs, scores, flags, resp, did>>

\* commit, sort, response (lines 377-401)
ScoreAllFinish ==
    /\ sa.pc = "finish"
    /\ scores' = sa.sessScores
    /\ flags' = sa.sessFlags
    /\ resp' = BulkScoringResponse(sa.job, SortDesc(sa.items), sa.candidates_scored,
                                   sa.candidates_checked, sa.errors)
    /\ did' = Log(sa.score_calls, sa.auth_calls, sa.errors)
    /\ sa' = SaIdle
    /\ UNCHANGED <<req, call, apiKey, profile, jobs>>
    /\ client' = NoClient


\* ------------------------------------------------------------ single score
\* ids a request can name: the company's candidates and one that is not
RequestCandidateIds == 1 .. (Len(profile) + 1)

ScoringResultResponse(row) ==
    [op |-> "score", status |-> 201, detail |-> "ok", score_id |-> row.id,
     total_score |-> row.total_score]

\* mutant of ScoreCandidate: the row is stored before the result is examined
ScoreCandidateStoreFirst(c, j, oracle) ==
    /\ Ready
    /\ UNCHANGED <<req, call, apiKey, profile, jobs, flags, sa>>
    /\ IF c \notin Candidates
       THEN /\ resp' = HTTPException("score", 404, "Candidate not found")
            /\ did' = NoLog
            /\ UNCHANGED scores
            /\ client' = NoClient
       ELSE IF j \notin jobs
       THEN /\ resp' = HTTPException("score", 404, "Job not found")
            /\ did' = NoLog
            /\ UNCHANGED scores
            /\ client' = NoClient
       ELSE IF ScoresOf(scores, c, j) # {}
       THEN /\ resp' = HTTPException("score", 400, "Score already exists for this candidate-job pair")
            /\ did' = NoLog
            /\ UNCHANGED scores
            /\ client' = NoClient
       ELSE IF ~GetScoringServiceOk(apiKey)
       THEN /\ resp' = HTTPException("score", 400, "Scoring error")
            /\ did' = NoLog
            /\ UNCHANGED scores
            /\ client' = NoClient
       ELSE \E r \in oracle :
              LET run == ServiceScoreCandidate(r)
                  row == ScoreRow(NextId(scores), c, j,
                                  IF run.out.ok THEN run.out.total_score[1] ELSE 0)
              IN  /\ client' = ClientRun("service", apiKey, run)
                  /\ did' = Log({c}, {}, << >>)
                  /\ IF run.out.ok
                     THEN /\ scores' = scores \cup {row}
                          /\ resp' = ScoringResultResponse(row)
                     ELSE /\ scores' = scores \cup {row}
                          /\ resp' = HTTPException("score", 400, "Scoring error")

\* POST /scoring/score (score_candidate of the router)
ScoreCandidate(c, j, oracle) ==
    /\ Ready
    /\ UNCHANGED <<req, call, apiKey, profile, jobs, flags, sa>>
    /\ IF c \notin Candidates
       THEN /\ resp' = HTTPException("score", 404, "Candidate not found")
            /\ did' = NoLog
            /\ UNCHANGED scores
            /\ client' = NoClient
       ELSE IF j \notin jobs
       THEN /\ resp' = HTTPException("score", 404, "Job not found")
            /\ did' = NoLog
            /\ UNCHANGED scores
            /\ client' = NoClient
       ELSE IF ScoresOf(scores, c, j) # {}
       THEN /\ resp' = HTTPException("score", 400, "Score already exists for this candidate-job pair")
            /\ did' = NoLog
            /\ UNCHANGED scores
            /\ client' = NoClient
       ELSE IF ~GetScoringServiceOk(apiKey)
       THEN /\ resp' = HTTPException("score", 400, "Scoring error")
            /\ did' = NoLog
            /\ UNCHANGED scores
            /\ client' = NoClient
       ELSE \E r \in oracle :
              LET run == ServiceScoreCandidate(r)
                  row == ScoreRow(NextId(scores), c, j, run.out.total_score[1])
              IN  /\ client' = ClientRun("service", apiKey, run)
                  /\ did' = Log({c}, {}, << >>)
                  /\ IF run.out.ok
                     THEN /\ scores' = scores \cup {row}
                          /\ resp' = ScoringResultResponse(row)
                     ELSE /\ scores' = scores
                          /\ resp' = HTTPException("score", 400, "Scoring error")

\* GET /scoring/candidate/{candidate_id}/job/{job_id} (get_score).  The return
\* statement stands inside the block of "if not candidate", after its raise: it
\* is never reached, the function ends without a value and the response is the
\* JSON null with status 200.
GetScore(c, j) ==
    /\ Ready
    /\ UNCHANGED <<req, call, apiKey, profile, jobs, scores, flags, sa>>
    /\ client' = NoClient
    /\ did' = NoLog
    /\ LET found == {r \in scores : r.candidate_id = c /\ r.job_id = j}
       IN  IF found = {}
           THEN resp' = [op |-> "getScore", status |-> 404, detail |-> "Score not found",
                         candidate_id |-> c, job_id |-> j]
           ELSE IF c \notin Candidates
           THEN resp' = [op |-> "getScore", status |-> 403, detail |-> "Access denied",
                         candidate_id |-> c, job_id |-> j]
           ELSE resp' = [op |-> "getScore", status |-> 200, detail |-> "null",
                         candidate_id |-> c, job_id |-> j]

\* --------------------------------------------------------- check-authenticity
AuthenticityCheckResponse(c, a, flag_id) ==
    [op |-> "checkAuthenticity", status |-> 200, detail |-> "ok", candidate_id |-> c,
     is_suspicious |-> a.is_suspicious, risk_score |-> a.risk_score,
     flag_id |-> flag_id]

\* POST /candidates/check-authenticity
CheckCandidateAuthenticity(c, oracle) ==
    /\ Ready
    /\ UNCHANGED <<req, call, apiKey, profile, jobs, scores, sa>>
    /\ client' = NoClient
    /\ IF c \notin Candidates
       THEN /\ resp' = HTTPException("checkAuthenticity", 404, "Candidate not found")
            /\ did' = NoLog
            /\ UNCHANGED flags
       ELSE \E r \in oracle :
              LET a == AnalyzeText(profile[c], TRUE, apiKey, r)
                  rows == UpsertFlag(flags, c, a)
              IN  /\ did' = Log({}, IF a.called THEN {c} ELSE {}, << >>)
                  /\ IF a.ok
                     THEN /\ flags' = rows
                          /\ resp' = AuthenticityCheckResponse(c, a, FlagIdOf(rows, c))
                     ELSE /\ flags' = flags
                          /\ resp' = HTTPException("checkAuthenticity", 500,
                                                   "Error checking authenticity")

\* ------------------------------------------------------ candidates and jobs
\* POST /candidates/upload-csv, /candidates/linkedin: one more candidate
CreateCandidate(text, limit) ==
    /\ Ready
    /\ Len(profile) < limit
    /\ profile' = Append(profile, text)
    /\ resp' = [op |-> "createCandidate", status |-> 201, detail |-> "ok"]
    /\ did' = NoLog
    /\ UNCHANGED <<req, call, apiKey, jobs, scores, flags, sa>>
    /\ client' = NoClient

\* POST /jobs/
CreateJob(j) ==
    /\ Ready
    /\ j \notin jobs
    /\ jobs' = jobs \cup {j}
    /\ resp' = [op |-> "createJob", status |-> 201, detail |-> "ok"]
    /\ did' = NoLog
    /\ UNCHANGED <<req, call, apiKey, profile, scores, flags, sa>>
    /\ client' = NoClient

\* DELETE /jobs/{job_id}
DeleteJob(j) ==
    /\ Ready
    /\ UNCHANGED <<req, call, apiKey, profile, flags, sa>>
    /\ client' = NoClient
    /\ did' = NoLog
    /\ IF j \notin jobs
       THEN /\ resp' = HTTPException("deleteJob", 404, "Job not found")
            /\ UNCHANGED <<jobs, scores>>
       ELSE /\ scores' = {r \in scores : r.job_id # j}
            /\ jobs' = jobs \ {j}
            /\ resp' = [op |-> "deleteJob", status |-> 204, detail |-> "ok"]

\* ------------------------------------------------- standalone scoring client
\* one call of score_candidate of backend/scoring_service.py; key: a usable
\* key is configured for the selected provider
StandaloneScore(oracle) ==
    /\ Ready
    /\ \E key \in BOOLEAN, r \in oracle :
         LET run == StandaloneScoreCandidate(key, r)
         IN client' = ClientRun("standalone", key, run)
    /\ resp' = [op |-> "standalone", status |-> 0, detail |-> "none"]
    /\ did' = NoLog
    /\ UNCHANGED <<req, call, apiKey, profile, jobs, scores, flags, sa>>

\* the response of the request just served goes out to the caller
Respond ==
    /\ sa.pc = "idle"
    /\ resp # NoResponse
    /\ resp' = NoResponse
    /\ did' = NoLog
    /\ client' = NoClient
    /\ UNCHANGED <<req, call, apiKey, profile, jobs, scores, flags, sa>>

\* --------------------------------------------------------- specification

\* a freshly created database, a process started with or without a key
Init ==
    /\ apiKey \in BOOLEAN
    /\ profile = << >>
    /\ jobs = {}
    /\ scores = {}
    /\ flags = {}
    /\ sa = SaIdle
    /\ resp = [op |-> "none", status |-> 0, detail |-> "none"]
    /\ did = NoLog
    /\ client = NoClient
    /\ call = NoCall
    /\ req = NoRequests

Next ==
    \/ \E t \in ProfileTexts : CreateCandidate(t, MaxCand)
    \/ \E j \in JobIds : CreateJob(j)
    \/ \E j \in RequestJobIds : DeleteJob(j)
    \/ \E j \in RequestJobIds : ScoreAllBegin(j)
    \/ ScoreAllAuth(BatchAuthOracle)
    \/ ScoreAllScore(ScoreOracle)
    \/ ScoreAllFinish
    \/ \E c \in RequestCandidateIds, j \in RequestJobIds : ScoreCandidate(c, j, ScoreOracle)
    \/ \E c \in RequestCandidateIds, j \in RequestJobIds : GetScore(c, j)
    \/ \E c \in RequestCandidateIds : CheckCandidateAuthenticity(c, AuthOracle)
    \/ StandaloneScore(ScoreOracle)
    \/ Respond

Spec == Init /\ [][Next]_vars


\* ------------------------------------------- a large company, small oracle
\* The bulk request over a company that already has NumLarge candidates and a
\* job, with a key configured; the endpoint either fails in transport or
\* answers one valid document.
NumLarge == 5
BatchCeiling == 4

LargeAuthOracle == {AuthFail}
LargeScoreOracle == {Completion("transport", NoDoc), Doc(90, OpenCats(50), TRUE, 20, 60)}

InitLarge ==
    /\ apiKey = TRUE
    /\ profile = [c \in 1 .. NumLarge |-> TextInject]
    /\ jobs = {"job"}
    /\ scores = {}
    /\ flags = {}
    /\ sa = SaIdle
    /\ resp = [op |-> "none", status |-> 0, detail |-> "none"]
    /\ did = NoLog
    /\ client = NoClient
    /\ call = NoCall
    /\ req = NoRequests

NextLarge ==
    \/ \E j \in RequestJobIds : ScoreAllBegin(j)
    \/ ScoreAllAuth(LargeAuthOracle)
    \/ ScoreAllScore(LargeScoreOracle)
    \/ ScoreAllFinish
    \/ Respond

SpecLarge == InitLarge /\ [][NextLarge]_vars


\* ------------------------------------------------- a batch over a stale record
\* The database holds, for the first candidate and the job, a record whose
\* total_score is NULL: a row of a table created before the column was declared
\* NOT NULL (create_all leaves an existing table as it is), the case for which
\* the analytics queries filter on total_score.isnot(None).  Its category_scores
\* is an empty dictionary.
StaleRow == ScoreRow(1, 1, "job", NULL)

InitStale ==
    /\ apiKey = TRUE
    /\ profile = [c \in 1 .. MaxCand |-> TextInject]
    /\ jobs = {"job"}
    /\ scores = {StaleRow}
    /\ flags = {}
    /\ sa = SaIdle
    /\ resp = NoResponse
    /\ did = NoLog
    /\ client = NoClient
    /\ call = NoCall
    /\ req = NoRequests

NextStale ==
    \/ \E j \in RequestJobIds : ScoreAllBegin(j)
    \/ ScoreAllAuth(BatchAuthOracle)
    \/ ScoreAllScore(ScoreOracle)
    \/ ScoreAllFinish
    \/ Respond

SpecStale == InitStale /\ [][NextStale]_vars


\* ----------------------------------------------- requests running side by side
\* score_all_candidates_for_job and score_candidate are coroutines: a request
\* gives way to the other requests where it awaits a completion call and nowhere
\* else.  Each request has the session that Depends(get_db) hands it: the rows
\* it has flushed are in the session's transaction, which other sessions do not
\* read, until db.commit().

\* rows that the sessions of the other requests hold uncommitted
OthersScores(r) == UNION {req[q].sessScores : q \in Requests \ {r}}
OthersFlags(r) == UNION {req[q].sessFlags : q \in Requests \ {r}}

\* mutant of UniqueCandidateJob: the table has no such constraint
UniqueCandidateJobAbsent(rows, c, j) == FALSE

\* UniqueConstraint("candidate_id", "job_id"): the INSERT of a row of the pair
\* fails when the table holds a row of the pair, committed or not
UniqueCandidateJob(rows, c, j) == ScoresOf(rows, c, j) # {}
\* candidate_id = Column(..., unique = True) of AuthenticityFlag
UniqueCandidate(rows, c) == FlagsOf(rows, c) # {}

\* what the session of request r reads
ViewScores(r) == scores \cup req[r].sessScores
Overlay(rows, changed) ==
    {f \in rows : FlagsOf(changed, f.candidate_id) = {}} \cup changed
ViewFlags(r) == Overlay(flags, req[r].sessFlags)

\* the id of the next INSERT: past every id handed out
NextScoreId == NextId(scores \cup UNION {req[q].sessScores : q \in Requests})
NextFlagId == NextId(flags \cup UNION {req[q].sessFlags : q \in Requests})

\* the request is over with the given status; its session is closed
Over(q, code) ==
    [ReqIdle EXCEPT !.pc = "done", !.op = q.op, !.job = q.job, !.cand = q.cand,
                    !.scored = q.scored, !.checked = q.checked,
                    !.visited = q.visited, !.errors = q.errors, !.status = code]

\* the outcome of a step: the request, and the two tables
Outcome(q, s, f) == [q |-> q, scores |-> s, flags |-> f]

\* except Exception: db.rollback(); HTTP 500 (lines 403-408)
RollBack(q) == Outcome(Over(q, 500), scores, flags)

\* db.commit() and the response (lines 377-401); a session whose flush failed
\* refuses the commit
Commit(q) ==
    IF q.broken
    THEN RollBack(q)
    ELSE Outcome(Over(q, 200), scores \cup q.sessScores, Overlay(flags, q.sessFlags))

\* the item is appended (line 375): on to the next candidate, or to the commit
Proceed(q) ==
    IF Tail(q.todo) # << >>
    THEN Outcome([q EXCEPT !.todo = Tail(@), !.pc = "auth"], scores, flags)
    ELSE Commit([q EXCEPT !.todo = << >>])

\* the lookup of the stored score (lines 299-312): reuse it, or call the
\* scoring client.  A session whose flush failed refuses the query, and the
\* exception leaves the loop.
Lookup(r, q) ==
    LET c == Head(q.todo)
    IN  IF q.broken
        THEN RollBack(q)
        ELSE IF ScoresOf(scores \cup q.sessScores, c, q.job) # {}
        THEN Proceed([q EXCEPT !.visited = @ \cup {c}])
        ELSE Outcome([q EXCEPT !.visited = @ \cup {c}, !.pc = "score"], scores, flags)

Apply(r, out) ==
    /\ req' = [req EXCEPT ![r] = out.q]
    /\ scores' = out.scores
    /\ flags' = out.flags
    /\ UNCHANGED <<call, apiKey, profile, jobs, sa, resp, did, client>>

\* POST /scoring/score-all up to the first await (lines 206-261)
ConcScoreAllBegin(r, j) ==
    /\ req[r].pc = "idle"
    /\ LET q == [ReqIdle EXCEPT !.op = "scoreAll", !.job = j]
       IN  IF j \notin jobs \/ Candidates = {}
           THEN Apply(r, Outcome(Over(q, 404), scores, flags))
           ELSE IF ~GetScoringServiceOk(apiKey)
           THEN Apply(r, Outcome(Over(q, 500), scores, flags))
           ELSE Apply(r, Outcome([q EXCEPT !.pc = "auth",
                                           !.todo = SeqOfSet(Candidates)],
                                 scores, flags))

\* analyze_text returns; the flag is created or updated; the stored score is
\* looked up (lines 261-312)
ConcScoreAllAuth(r, oracle) ==
    /\ req[r].pc = "auth"
    /\ \E ans \in oracle :
         LET q == req[r]
             c == Head(q.todo)
             a == AnalyzeText(profile[c], TRUE, apiKey, ans)
             failed == [q EXCEPT !.errors = @ \cup {ErrorEntry("authenticity", c)}]
         IN  IF ~a.ok \/ q.broken
             THEN Apply(r, Lookup(r, failed))
             ELSE IF FlagsOf(ViewFlags(r), c) # {}
             THEN LET old == First(FlagsOf(ViewFlags(r), c))
                  IN Apply(r, Lookup(r, [q EXCEPT
                        !.sessFlags = {f \in @ : f.candidate_id # c}
                                         \cup {FlagRow(old.id, c, a)},
                        !.checked = @ \cup {c}]))
             ELSE IF UniqueCandidate(flags \cup OthersFlags(r), c)
             THEN Apply(r, Lookup(r, [failed EXCEPT !.broken = TRUE]))
             ELSE Apply(r, Lookup(r, [q EXCEPT
                        !.sessFlags = @ \cup {FlagRow(NextFlagId, c, a)},
                        !.checked = @ \cup {c}]))

\* score_candidate of the client returns; the row is added and flushed
\* (lines 333-375)
ConcScoreAllScore(r, oracle) ==
    /\ req[r].pc = "score"
    /\ \E ans \in oracle :
         LET q == req[r]
             c == Head(q.todo)
             run == ServiceScoreCandidate(ans)
             failed == [q EXCEPT !.errors = @ \cup {ErrorEntry("scoring", c)}]
         IN  IF ~run.out.ok
             THEN Apply(r, Proceed(failed))
             ELSE IF UniqueCandidateJob(scores \cup OthersScores(r), c, q.job)
             THEN Apply(r, Proceed([failed EXCEPT !.broken = TRUE]))
             ELSE Apply(r, Proceed([q EXCEPT
                        !.sessScores = @ \cup {ScoreRow(NextScoreId, c, q.job,
                                                        run.out.total_score[1])},
                        !.scored = @ \cup {[candidate_id |-> c,
                                            total_score |-> run.out.total_score[1]]}]))

\* POST /scoring/score up to the await (lines 29-88)
ConcScoreBegin(r, c, j) ==
    /\ req[r].pc = "idle"
    /\ LET q == [ReqIdle EXCEPT !.op = "score", !.job = j, !.cand = c]
       IN  IF c \notin Candidates \/ j \notin jobs
           THEN Apply(r, Outcome(Over(q, 404), scores, flags))
           ELSE IF ScoresOf(scores, c, j) # {} \/ ~GetScoringServiceOk(apiKey)
           THEN Apply(r, Outcome(Over(q, 400), scores, flags))
           ELSE Apply(r, Outcome([q EXCEPT !.pc = "single"], scores, flags))

\* score_candidate of the client returns; db.add, db.commit (lines 88-146)
ConcScoreReturn(r, oracle) ==
    /\ req[r].pc = "single"
    /\ \E ans \in oracle :
         LET q == req[r]
             run == ServiceScoreCandidate(ans)
             row == ScoreRow(NextScoreId, q.cand, q.job, run.out.total_score[1])
         IN  IF ~run.out.ok
             THEN Apply(r, Outcome(Over(q, 400), scores, flags))
             ELSE IF UniqueCandidateJob(scores \cup OthersScores(r), q.cand, q.job)
             THEN Apply(r, Outcome(Over(q, 500), scores, flags))
             ELSE Apply(r, Outcome(
                     Over([q EXCEPT !.scored = {[candidate_id |-> q.cand,
                                                 total_score |-> row.total_score]}],
                          201),
                     scores \cup {row}, flags))

ConcAuthOracle == {AuthDoc(TRUE, 1000), AuthDoc(FALSE, 2000)}
ConcScoreOracle == {Completion("transport", NoDoc), Doc(90, OpenCats(50), TRUE, 20, 60)}

\* The tables when the requests arrive: empty, or filled by earlier requests
\* with a score of the first candidate and a flag of every candidate.
EarlierScores == {ScoreRow(1, 1, "job", 90)}
EarlierFlags ==
    {FlagRow(c, c, AnalyzeText(TextInject, TRUE, TRUE, AuthDoc(TRUE, 1000))) :
        c \in 1 .. MaxCand}

InitConc ==
    /\ apiKey = TRUE
    /\ profile = [c \in 1 .. MaxCand |-> TextInject]
    /\ jobs = {"job"}
    /\ scores \in {{}, EarlierScores}
    /\ flags \in {{}, EarlierFlags}
    /\ sa = SaIdle
    /\ resp = NoResponse
    /\ did = NoLog
    /\ client = NoClient
    /\ call = NoCall
    /\ req = NoRequests

NextConc ==
    \/ \E r \in Requests, j \in JobIds : ConcScoreAllBegin(r, j)
    \/ \E r \in Requests : ConcScoreAllAuth(r, ConcAuthOracle)
    \/ \E r \in Requests : ConcScoreAllScore(r, ConcScoreOracle)
    \/ \E r \in Requests, c \in Candidates, j \in JobIds : ConcScoreBegin(r, c, j)
    \/ \E r \in Requests : ConcScoreReturn(r, ConcScoreOracle)
    \/ \E j \in JobIds : DeleteJob(j)

SpecConc == InitConc /\ [][NextConc]_vars


\* ------------------------------------------- the two validators on their own
\* The documents handed to the validators.  Scores: the range's ends, the first
\* value past each end, a string that spells a number, another string, a boolean.
ScoreValues == {Num(-1), Num(0), Num(100), Num(101), NumStr(85), Str, Bool(TRUE)}
TotalValues == {None} \cup {Some(x) : x \in ScoreValues}
\* key sets of category_scores: the four fixed keys, two of them missing, one
\* extra, one renamed, and caller-defined names
CategoryKeySets ==
    {RequiredCategoryKeys,
     {"skills_score", "experience_score"},
     RequiredCategoryKeys \cup {"culture_score"},
     (RequiredCategoryKeys \ {"company_match_score"}) \cup {"culture_score"},
     {"Technical Skills", "Experience"}}
\* explanation: absent, empty, one character short of 50, 50 characters
ExplanationValues == {None, Some(0), Some(49), Some(50)}
\* category_scores over the keys K: every score is 50 but one, which is x
CatsWith(K, x) ==
    LET odd == CHOOSE k \in K : \A q \in K : k \in {"skills_score", "Technical Skills"}
                                           \/ q \notin {"skills_score", "Technical Skills"}
    IN [k \in K |-> IF k = odd THEN x ELSE Num(50)]
\* strengths and weaknesses: absent, or lists of two entries
StrengthsValues == {None, Some(2)}
ValidateDocs ==
    {[JsonDoc(t, CatsWith(K, x), n, 20, e) EXCEPT !.strengths = s] :
        t \in TotalValues, K \in CategoryKeySets, x \in ScoreValues,
        n \in BOOLEAN, e \in ExplanationValues, s \in StrengthsValues}

\* the tables, the batch and the last response as they are after start-up
Quiet ==
    /\ profile = << >>
    /\ jobs = {}
    /\ scores = {}
    /\ flags = {}
    /\ sa = SaIdle
    /\ resp = [op |-> "none", status |-> 0, detail |-> "none"]
    /\ did = NoLog
    /\ client = NoClient
    /\ req = NoRequests

\* an input on which a service function is about to be invoked
Input(x) == [fn |-> "input", arg |-> x]

InitValidate ==
    /\ apiKey = FALSE
    /\ Quiet
    /\ call \in {Input(d) : d \in ValidateDocs}

\* validate_scoring_payload(data): accepted, or ValueError raised
CallValidateScoringPayload ==
    /\ call.fn = "input"
    /\ call' = [fn |-> "validate_scoring_payload", doc |-> call.arg,
                accepted |-> ValidateScoringPayload(call.arg),
                result |-> IF ValidateScoringPayload(call.arg)
                           THEN ValidateScoringPayloadResult(call.arg)
                           ELSE NoResult]
    /\ UNCHANGED <<req, apiKey, profile, jobs, scores, flags, sa, resp, did, client>>

\* ScoringResponse(**json_data): accepted, or ValidationError raised
CallScoringResponse ==
    /\ call.fn = "input"
    /\ call' = [fn |-> "ScoringResponse", doc |-> call.arg,
                accepted |-> ScoringResponseOk(call.arg),
                result |-> IF ScoringResponseOk(call.arg)
                           THEN ScoringResponseResult(call.arg)
                           ELSE NoResult]
    /\ UNCHANGED <<req, apiKey, profile, jobs, scores, flags, sa, resp, did, client>>

NextValidate ==
    \/ CallValidateScoringPayload
    \/ CallScoringResponse

SpecValidate == InitValidate /\ [][NextValidate]_vars


\* ----------------------------------------- JSON extraction from a completion
\* A text is a sequence of characters; three characters go by a name.
MaxWords == 2

Backtick == "BACKTICK"
Quote == "QUOTE"
Newline == "NEWLINE"

Fence == <<Backtick, Backtick, Backtick>>
FenceJson == Fence \o <<"j", "s", "o", "n">>
Whitespace == {" ", Newline}

StartsWith(s, p) == Len(s) >= Len(p) /\ SubSeq(s, 1, Len(p)) = p
EndsWith(s, p) == Len(s) >= Len(p) /\ SubSeq(s, Len(s) - Len(p) + 1, Len(s)) = p
Drop(s, n) == SubSeq(s, n + 1, Len(s))
DropLast(s, n) == SubSeq(s, 1, Len(s) - n)

\* str.lstrip, str.rstrip, str.strip: the characters of chars leave the ends
RECURSIVE LStrip(_, _)
LStrip(s, chars) ==
    IF s # << >> /\ Head(s) \in chars THEN LStrip(Tail(s), chars) ELSE s
RECURSIVE RStrip(_, _)
RStrip(s, chars) ==
    IF s # << >> /\ s[Len(s)] \in chars THEN RStrip(DropLast(s, 1), chars) ELSE s
StripChars(s, chars) == RStrip(LStrip(s, chars), chars)
Strip(s) == StripChars(s, Whitespace)

\* str.replace(old, ""): every occurrence of old, found left to right, is removed
RECURSIVE Remove(_, _)
Remove(s, old) ==
    IF Len(s) < Len(old) THEN s
    ELSE IF StartsWith(s, old) THEN Remove(Drop(s, Len(old)), old)
         ELSE <<Head(s)>> \o Remove(Tail(s), old)

\* json.loads on the documents of this model, {"key":"value"}: the parsed
\* document, or the JSONDecodeError.  White space around the document is skipped.
JSONDecodeError == [ok |-> FALSE, key |-> << >>, value |-> << >>]
JsonLoads(text) ==
    LET t == Strip(text)
        n == Len(t)
        quotes == {i \in 1 .. n : t[i] = Quote}
        q2 == CHOOSE i \in quotes : Cardinality({j \in quotes : j < i}) = 1
    IN  IF /\ n >= 7
           /\ Cardinality(quotes) = 4
           /\ t[1] = "{" /\ t[2] = Quote /\ t[n] = "}" /\ t[n - 1] = Quote
           /\ q2 + 2 \in quotes /\ t[q2 + 1] = ":"
           /\ \A i \in 1 .. n : t[i] # Newline
        THEN [ok |-> TRUE, key |-> SubSeq(t, 3, q2 - 1),
              value |-> SubSeq(t, q2 + 3, n - 2)]
        ELSE JSONDecodeError

\* LLMScoringService.score_candidate, lines 137-146, and
\* AuthenticityService._llm_classification, lines 181-190: the same statements
ServiceExtractJSON(content) ==
    LET c0 == Strip(content)
        c1 == IF StartsWith(c0, FenceJson) THEN Drop(c0, 7) ELSE c0
        c2 == IF StartsWith(c1, Fence) THEN Drop(c1, 3) ELSE c1
        c3 == IF EndsWith(c2, Fence) THEN DropLast(c2, 3) ELSE c2
    IN  JsonLoads(Strip(c3))

AuthenticityExtractJSON(content) ==
    LET c0 == Strip(content)
        c1 == IF StartsWith(c0, FenceJson) THEN Drop(c0, 7) ELSE c0
        c2 == IF StartsWith(c1, Fence) THEN Drop(c1, 3) ELSE c1
        c3 == IF EndsWith(c2, Fence) THEN DropLast(c2, 3) ELSE c2
    IN  JsonLoads(Strip(c3))

\* score_candidate of backend/scoring_service.py, lines 64-70
StandaloneExtractJSON(content) ==
    LET raw == Strip(content)
        cleaned == IF StartsWith(raw, Fence)
                   THEN Strip(Remove(StripChars(raw, {Backtick}), <<"j", "s", "o", "n">>))
                   ELSE raw
    IN  JsonLoads(cleaned)

\* The completions the routines are given: the document {"k":"<value>"}, the
\* value made of at most MaxWords of these words, bare and inside a fenced block
Words == {<<"j", "s", "o", "n">>, <<"j", "s">>, <<"o", "n">>, <<Backtick>>, <<"x">>}
RECURSIVE Phrases(_)
Phrases(n) ==
    IF n = 0 THEN {<< >>}
    ELSE Phrases(n - 1) \cup {p \o w : p \in Phrases(n - 1), w \in Words}
JsonText(value) ==
    <<"{", Quote, "k", Quote, ":", Quote>> \o value \o <<Quote, "}">>
FenceKinds == {"json", "bare"}
Fenced(kind, text) ==
    (IF kind = "json" THEN FenceJson ELSE Fence)
    \o <<Newline>> \o text \o <<Newline>> \o Fence

InitExtract ==
    /\ apiKey = FALSE
    /\ Quiet
    /\ call \in {Input([text |-> JsonText(v), fence |-> f]) :
                    v \in Phrases(MaxWords), f \in FenceKinds}

\* one routine applied to the text and to the text inside the fenced block
Extraction(fn, plain, fenced) ==
    [fn |-> fn, text |-> call.arg.text, fence |-> call.arg.fence,
     plain |-> plain, fenced |-> fenced]

CallServiceExtractJSON ==
    /\ call.fn = "input"
    /\ call' = Extraction("service",
                  ServiceExtractJSON(call.arg.text),
                  ServiceExtractJSON(Fenced(call.arg.fence, call.arg.text)))
    /\ UNCHANGED <<req, apiKey, profile, jobs, scores, flags, sa, resp, did, client>>

CallAuthenticityExtractJSON ==
    /\ call.fn = "input"
    /\ call' = Extraction("authenticity",
                  AuthenticityExtractJSON(call.arg.text),
                  AuthenticityExtractJSON(Fenced(call.arg.fence, call.arg.text)))
    /\ UNCHANGED <<req, apiKey, profile, jobs, scores, flags, sa, resp, did, client>>

CallStandaloneExtractJSON ==
    /\ call.fn = "input"
    /\ call' = Extraction("standalone",
                  StandaloneExtractJSON(call.arg.text),
                  StandaloneExtractJSON(Fenced(call.arg.fence, call.arg.text)))
    /\ UNCHANGED <<req, apiKey, profile, jobs, scores, flags, sa, resp, did, client>>

NextExtract ==
    \/ CallServiceExtractJSON
    \/ CallAuthenticityExtractJSON
    \/ CallStandaloneExtractJSON

SpecExtract == InitExtract /\ [][NextExtract]_vars


\* ------------------------------------------- the authenticity detector alone
MaxHighRisk == 2
MaxMedium == 4

\* texts: empty or white space only; otherwise the number of HIGH_RISK_PATTERNS
\* and of the other SUSPICIOUS_KEYWORDS that match
AnalyzeTexts ==
    {[empty |-> TRUE, high |-> 0, all |-> 0]}
    \cup {[empty |-> FALSE, high |-> h, all |-> h + m] :
             h \in 0 .. MaxHighRisk, m \in 0 .. MaxMedium}
\* what the completion endpoint answers: the three failures, or a document with
\* is_suspicious and a risk_score, which the model may report outside [0,1]
AuthFailure(k) == [kind |-> k, susp |-> FALSE, score |-> 0]
AuthFailures == {AuthFailure(k) : k \in {"transport", "status", "unparseable"}}
ReportedRisk == {-1000, 0, 250, 500, 1000, 2000}
AnalyzeOracle ==
    AuthFailures \cup {AuthDoc(b, l) : b \in BOOLEAN, l \in ReportedRisk}

InitAnalyze ==
    /\ apiKey \in BOOLEAN
    /\ Quiet
    /\ call \in {Input([text |-> t, use_llm |-> u, answer |-> r]) :
                    t \in AnalyzeTexts, u \in BOOLEAN, r \in AnalyzeOracle}

\* AuthenticityService.analyze_text(text, use_llm)
CallAnalyzeText ==
    /\ call.fn = "input"
    /\ call' = [fn |-> "analyze_text", text |-> call.arg.text,
                use_llm |-> call.arg.use_llm, key |-> apiKey,
                answer |-> call.arg.answer,
                result |-> AnalyzeText(call.arg.text, call.arg.use_llm, apiKey,
                                       call.arg.answer)]
    /\ UNCHANGED <<req, apiKey, profile, jobs, scores, flags, sa, resp, did, client>>

NextAnalyze == CallAnalyzeText

SpecAnalyze == InitAnalyze /\ [][NextAnalyze]_vars

\* ------------------------------------------------------------------ claims
Range(seq) == {seq[i] : i \in 1 .. Len(seq)}
InBatch == sa.pc \in {"auth", "score", "finish"}
Returned(op) == resp.op = op /\ resp.status # 0
BulkSuccess == resp.op = "scoreAll" /\ resp.status = 200
ItemsOf(items, c) == {it \in Range(items) : it.candidate_id = c}
StoredFor(rows, c, j) == {q \in rows : q.candidate_id = c /\ q.job_id = j}
FlagsFor(rows, c) == {q \in rows : q.candidate_id = c}

\* C1: a score-all over more candidates than the safety ceiling of 4 is
\* answered BatchTooLarge, issues no authenticity and no scoring completion, and
\* stores no score and no flag.
C1_AdmissionControl ==
    Len(profile) > BatchCeiling =>
        /\ (Returned("scoreAll") /\ resp.detail # "Job not found"
              => resp.detail = "BatchTooLarge")
        /\ sa.auth_calls = {} /\ sa.score_calls = {}
        /\ did.auth_calls = {} /\ did.score_calls = {}
        /\ scores = {} /\ flags = {}

\* C2: when score-all commits, every (candidate, job) row that was stored before
\* the request is still stored unchanged, no scoring completion was issued for
\* its candidate, the candidate's item carries exactly the stored total_score
\* and id, and candidates_scored counts only the rows this request added.
C2_ReuseStoredScore ==
    [][ScoreAllFinish =>
         /\ \A r \in {q \in scores : q.job_id = sa.job} :
               /\ r \in scores'
               /\ StoredFor(scores', r.candidate_id, sa.job) = {r}
               /\ r.candidate_id \notin did'.score_calls
               /\ \E it \in ItemsOf(resp'.candidates, r.candidate_id) :
                     /\ it.total_score = Some(r.total_score)
                     /\ it.score_id = Some(r.id)
         /\ resp'.candidates_scored = Cardinality(scores' \ scores)
      ]_vars

\* C2 witness: a finished score-all returned a scored item for which it issued
\* no scoring completion (the stored score was reused)
C2_Witness ==
    /\ BulkSuccess
    /\ \E it \in Range(resp.candidates) :
          /\ it.total_score = Some(90)
          /\ it.candidate_id \notin did.score_calls
    /\ did.score_calls # {}


\* C3: a failed scoring-client invocation inside score-all is recorded and
\* isolated: the step that failed appended the candidate's item with empty score
\* fields and an error naming the candidate, stored no row, and went on to the
\* next candidate; no candidate is dropped from the batch; the batch ends with
\* the success response, which holds an item for every candidate, the failed
\* ones with empty score fields.
C3_ScoringFailureIsolated ==
    /\ (InBatch /\ client.which = "service" /\ ~client.out.ok =>
          LET it == sa.items[Len(sa.items)]
          IN  /\ it.total_score = None /\ it.score_id = None
              /\ sa.errors[Len(sa.errors)] = ErrorEntry("scoring", it.candidate_id)
              /\ StoredFor(sa.sessScores, it.candidate_id, sa.job) = {}
              /\ sa.pc = IF Len(sa.items) < Len(profile) THEN "auth" ELSE "finish")
    /\ (InBatch => Len(sa.items) + Len(sa.todo) = Len(profile))
    /\ (InBatch =>
          \A e \in Range(sa.errors) : e.stage = "scoring" =>
             \A it \in ItemsOf(sa.items, e.candidate_id) : it.total_score = None)
    /\ (Returned("scoreAll") /\ did.errors # << >> =>
          /\ resp.status = 200
          /\ \A c \in Candidates : Cardinality(ItemsOf(resp.candidates, c)) = 1
          /\ Len(resp.candidates) = Len(profile)
          /\ \A e \in Range(did.errors) : e.stage = "scoring" =>
                \A it \in ItemsOf(resp.candidates, e.candidate_id) :
                   it.total_score = None /\ it.score_id = None)

\* C3 witness: a batch returned success although scoring failed for the first
\* candidate, and a later candidate was scored
C3_Witness ==
    /\ BulkSuccess
    /\ ErrorEntry("scoring", 1) \in Range(did.errors)
    /\ \E it \in ItemsOf(resp.candidates, 2) : it.total_score # None
    /\ 2 \in did.score_calls

\* C4: without a credential, a score-all over an existing job and a non-empty
\* candidate set returns success, every candidate without a stored score has an
\* item with empty score fields and an error of its own.
C4_ConfigurationErrorPerItem ==
    (~apiKey /\ Returned("scoreAll")
       /\ resp.detail \notin {"Job not found", "No candidates found for this company"})
    => /\ resp.status = 200
       /\ \A c \in Candidates :
             StoredFor(scores, c, resp.job_id) = {} =>
                /\ \E it \in ItemsOf(resp.candidates, c) : it.total_score = None
                /\ ErrorEntry("scoring", c) \in Range(did.errors)

\* C5: a score-all aborts only for a batch-level admission reason: job not
\* found, no candidates, batch too large.
C5_OnlyAdmissionAborts ==
    (Returned("scoreAll") /\ resp.status # 200) =>
        resp.detail \in {"Job not found", "No candidates found for this company",
                         "BatchTooLarge"}

\* the error entries a response carries
ErrorsCarried(r) == IF "errors" \in DOMAIN r THEN Range(r.errors) ELSE {}

\* C6: the score-all result carries the error list, and it names the candidate
\* of every returned item whose total_score is missing.
C6_NoSilentLoss ==
    BulkSuccess =>
        \A it \in Range(resp.candidates) :
            it.total_score = None =>
               \E e \in ErrorsCarried(resp) : e.candidate_id = it.candidate_id

\* C7: in the returned list the scores never increase from one scored item to
\* the next, and no item without a score stands before an item with a score.
C7_OutputOrdering ==
    BulkSuccess =>
        \A i \in 1 .. Len(resp.candidates), k \in 1 .. Len(resp.candidates) :
            i < k =>
              LET a == resp.candidates[i].total_score
                  b == resp.candidates[k].total_score
              IN  /\ (a # None /\ b # None => a[1] >= b[1])
                  /\ (a = None => b = None)

\* C7 witness: the candidate processed first failed, the one processed last
\* got 0, and the response lists the scored one before the failed one
C7_Witness ==
    /\ BulkSuccess
    /\ Len(resp.candidates) = 2
    /\ resp.candidates[1].candidate_id = 2
    /\ resp.candidates[1].total_score = Some(0)
    /\ resp.candidates[2].total_score = None


\* C8: a candidate never has two flags; the flag of a candidate just analysed
\* by check-authenticity or by score-all is the only one of that candidate and
\* holds the verdict returned; no step removes a flag or changes a flag's id or
\* candidate (a re-analysis overwrites in place).
C8_FlagState ==
    /\ \A c \in Candidates :
          /\ Cardinality(FlagsFor(flags, c)) <= 1
          /\ Cardinality(FlagsFor(sa.sessFlags, c)) <= 1
    /\ (Returned("checkAuthenticity") /\ resp.status = 200 =>
          FlagsFor(flags, resp.candidate_id) =
             {[id |-> resp.flag_id, candidate_id |-> resp.candidate_id,
               is_suspicious |-> resp.is_suspicious, risk_score |-> resp.risk_score]})
    /\ (BulkSuccess =>
          \A it \in Range(resp.candidates) : it.is_suspicious # None =>
             FlagsFor(flags, it.candidate_id) =
                {[id |-> it.flag_id[1], candidate_id |-> it.candidate_id,
                  is_suspicious |-> it.is_suspicious[1],
                  risk_score |-> it.risk_score[1]]})

C8_FlagKept ==
    \A f \in flags : \E g \in flags' : g.id = f.id /\ g.candidate_id = f.candidate_id

C8_OneFlagPerCandidate == [](C8_FlagState) /\ [][C8_FlagKept]_vars

\* C8 witness: candidate 1 was analysed again after candidate 2 got its flag,
\* and the flag of candidate 1 still has the first id and now the new verdict
C8_Witness ==
    /\ Returned("checkAuthenticity") /\ resp.status = 200
    /\ resp.candidate_id = 1 /\ resp.flag_id = 1 /\ resp.risk_score = 980
    /\ \E f \in flags : f.candidate_id = 2 /\ f.id = 2 /\ f.risk_score = 380

C10_DuplicateRejected ==
    [][\A c \in Candidates, j \in jobs :
          (StoredFor(scores, c, j) # {} /\ ScoreCandidate(c, j, ScoreOracle)) =>
              /\ resp'.status = 400
              /\ resp'.detail = "Score already exists for this candidate-job pair"
              /\ client' = NoClient
              /\ did'.score_calls = {}
              /\ scores' = scores
      ]_vars

\* C10 witness: a score request was rejected as a duplicate
C10_Witness ==
    /\ Returned("score")
    /\ resp.detail = "Score already exists for this candidate-job pair"
    /\ scores # {}


\* ------------------------------------------------------- validators, claims
Validated == call.fn \in {"validate_scoring_payload", "ScoringResponse"}
\* every score a document holds: total_score and the category scores
ScoresOfDoc(d) ==
    (IF d.total_score = None THEN {} ELSE {d.total_score[1]})
    \cup {d.category_scores[k] : k \in DOMAIN d.category_scores}
\* a document that meets the shape, key and explanation demands of the
\* validator it was handed to and holds only the numbers 0, 50 and 100
WellFormedBut(d, fn) ==
    /\ d.total_score # None
    /\ d.explanation = Some(50)
    /\ \A x \in ScoresOfDoc(d) : x.t = "number" /\ x.v \in {0, 50, 100}
    /\ IF fn = "validate_scoring_payload"
       THEN DOMAIN d.category_scores = RequiredCategoryKeys /\ ~d.nested
       ELSE d.nested

\* C11: in both validators a document is accepted only if total_score and every
\* category score are numbers within [0,100]; a document holding the number 101
\* or -1 is rejected; an otherwise valid document whose scores are 0 or 100 is
\* accepted.
C11_RangeEnforcement ==
    Validated =>
       /\ call.accepted =>
             /\ call.doc.total_score # None
             /\ \A x \in ScoresOfDoc(call.doc) : x.t = "number" /\ InRange(x.v)
       /\ (\E x \in ScoresOfDoc(call.doc) : x.t = "number" /\ x.v \in {101, -1})
             => ~call.accepted
       /\ WellFormedBut(call.doc, call.fn) => call.accepted

\* C12: validate_scoring_payload accepts a document only if the key set of
\* category_scores is exactly the four fixed keys: a missing, an extra or a
\* renamed key is rejected, whatever the values.
C12_FixedFourKeys ==
    call.fn = "validate_scoring_payload" =>
       (call.accepted => DOMAIN call.doc.category_scores = RequiredCategoryKeys)

\* C12 witness: the validator rejected a document that holds only two of the
\* four keys and is valid in everything else
C12_Witness ==
    /\ call.fn = "validate_scoring_payload"
    /\ DOMAIN call.doc.category_scores = {"skills_score", "experience_score"}
    /\ call.doc.total_score # None
    /\ \A x \in ScoresOfDoc(call.doc) : x.t = "number" /\ InRange(x.v)
    /\ ~call.doc.nested
    /\ call.doc.explanation = Some(50)
    /\ ~call.accepted

\* C13: both validators reject every document whose explanation is absent,
\* empty or shorter than 50 characters.
C13_ExplanationCheck ==
    Validated =>
       ((call.doc.explanation = None \/ call.doc.explanation[1] < 50)
            => ~call.accepted)


\* ------------------------------------------------------- extraction, claims
Extracted == call.fn \in {"service", "authenticity", "standalone"}

\* C14: in each of the three extraction routines a valid JSON text wrapped in a
\* fenced block (with or without the json tag) parses to the same document as
\* the text itself, also when the text holds "json" or backticks.
C14_FenceRoundTrip ==
    Extracted => (call.plain.ok /\ call.fenced = call.plain)


\* ----------------------------------------------- authenticity detector, claims
Analyzed == call.fn = "analyze_text"
\* the LLM stage ran and its completion call failed or could not be parsed
LlmStageFailed == call.use_llm /\ call.key /\ call.answer \in AuthFailures
\* the LLM stage ran and the model answered
LlmStageAnswered == call.use_llm /\ call.key /\ call.answer.kind = "ok"

\* C15: empty or white-space-only text yields (not suspicious, 0.0, "Empty text
\* provided") for every use_llm and with or without a credential, and neither
\* the heuristic scan nor a completion call is made.
C15_EmptyText ==
    (Analyzed /\ call.text.empty) =>
       /\ call.result.ok
       /\ ~call.result.is_suspicious
       /\ call.result.risk_score = 0
       /\ call.result.reason = "Empty text provided"
       /\ ~call.result.scanned
       /\ ~call.result.called

\* C15 witness: empty text was analysed with the LLM stage enabled and a
\* credential configured
C15_Witness ==
    /\ Analyzed /\ call.text.empty /\ call.use_llm /\ call.key
    /\ call.result.reason = "Empty text provided"

\* C16: non-empty text matching a high-risk pattern gets a heuristic score of at
\* least 0.9 and the verdict is_suspicious = true when the LLM stage is disabled,
\* has no credential, failed, or answered not-suspicious with a risk score in
\* [0,1].
C16_HighRiskPattern ==
    (/\ Analyzed /\ ~call.text.empty /\ call.text.high > 0
     /\ (LlmStageAnswered =>
            ~call.answer.susp /\ call.answer.score \in 0 .. 1000)) =>
       /\ call.result.heuristic.score >= 900
       /\ call.result.ok
       /\ call.result.is_suspicious

\* C16 witness: a text with one high-risk match was analysed while the model
\* answered not-suspicious with risk 0, and was flagged
C16_Witness ==
    /\ Analyzed /\ call.text.high = 1 /\ call.text.all = 1
    /\ LlmStageAnswered /\ ~call.answer.susp /\ call.answer.score = 0
    /\ call.result.is_suspicious

\* C17: when the completion call of the LLM stage fails in transport, with a
\* non-2xx status or with an unparseable body, the stage yields (not suspicious,
\* 0.0, a failure reason) and analyze_text returns a result.
C17_LlmFaultTolerance ==
    (Analyzed /\ ~call.text.empty /\ LlmStageFailed) =>
       /\ ~call.result.llm.susp
       /\ call.result.llm.score = 0
       /\ call.result.llm.reason = "LLM classification failed"
       /\ call.result.ok
       /\ call.result.risk_score = (call.result.heuristic.score * 4) \div 10

\* C17 witness: the completion call failed in transport for a text with
\* suspicious keywords, and the analysis returned
C17_Witness ==
    /\ Analyzed /\ ~call.text.empty /\ call.text.all > 0
    /\ call.use_llm /\ call.key /\ call.answer = AuthFailure("transport")
    /\ call.result.ok

\* C18: every analysis of non-empty text returns a result whose risk_score is in
\* [0,1], whatever risk_score the model reports, also below 0 or above 1.
C18_RiskScoreInUnitInterval ==
    (Analyzed /\ ~call.text.empty) =>
       /\ call.result.ok
       /\ 0 <= call.result.risk_score /\ call.result.risk_score <= 1000


\* ------------------------------------------------------ get_score, tie order
\* C19: get_score returns the stored score (its id and total_score) of a pair
\* that has one and whose candidate is in the caller's company; it answers 'not
\* found' only when no score is stored and 'access denied' only when the
\* candidate is not in the caller's company.
C19_ScoreRetrieval ==
    resp.op = "getScore" =>
       LET stored == StoredFor(scores, resp.candidate_id, resp.job_id)
       IN  /\ (stored # {} /\ resp.candidate_id \in Candidates) =>
                 /\ resp.status = 200
                 /\ "score_id" \in DOMAIN resp
                 /\ \E row \in stored : /\ resp.score_id = row.id
                                        /\ resp.total_score = row.total_score
           /\ (resp.status = 404 => stored = {})
           /\ (resp.status = 403 => resp.candidate_id \notin Candidates)

\* the place of the item of candidate c in a list of items
PlaceOf(items, c) == CHOOSE p \in 1 .. Len(items) : items[p].candidate_id = c

\* C20: when score-all sorts its items, two items with equal total_score, and
\* two items that both lack a score, keep the order in which their candidates
\* were processed.
C20_TieOrder ==
    [][ScoreAllFinish =>
         \A i \in 1 .. Len(resp'.candidates), k \in 1 .. Len(resp'.candidates) :
            (i < k /\ resp'.candidates[i].total_score = resp'.candidates[k].total_score)
               => PlaceOf(sa.items, resp'.candidates[i].candidate_id)
                     < PlaceOf(sa.items, resp'.candidates[k].candidate_id)
      ]_vars

\* C20 witness: a score-all returned two items that both scored 90, the
\* candidate processed first standing first
C20_Witness ==
    /\ BulkSuccess
    /\ Len(resp.candidates) = 2
    /\ resp.candidates[1].total_score = Some(90)
    /\ resp.candidates[2].total_score = Some(90)
    /\ resp.candidates[1].candidate_id = 1
    /\ resp.candidates[2].candidate_id = 2
    /\ did.score_calls = {1, 2}

\* ------------------------------------------------------------ stale records
\* the records stored for candidate c and job j whose total_score is NULL
StaleFor(rows, c, j) == {q \in StoredFor(rows, c, j) : q.total_score = NULL}

Combined == Analyzed /\ ~call.text.empty /\ call.result.ok
\* the LLM stage takes part in the combination
LlmStageUsed == call.use_llm /\ call.key
HeuristicScores == {0, 600, 700, 800, 850, 950, 1000}

\* C24: with h high-risk patterns and m library patterns matching the text, the
\* heuristic stage returns (true, min(0.9 + 0.05h, 1.0)) if h >= 1, else
\* (true, min(0.5 + 0.1m, 0.85)) if m >= 1, else (false, 0.0); its score is one
\* of 0.0, 0.6, 0.7, 0.8, 0.85, 0.95, 1.0 and is 0.0 exactly when not suspicious.
C24_HeuristicRule ==
    (Analyzed /\ ~call.text.empty) =>
       LET hs == call.result.heuristic
           h == call.text.high
           m == call.text.all
       IN  /\ h >= 1 => /\ hs.susp
                        /\ hs.score = IF 900 + 50 * h < 1000 THEN 900 + 50 * h ELSE 1000
           /\ (h = 0 /\ m >= 1) =>
                 /\ hs.susp
                 /\ hs.score = IF 500 + 100 * m < 850 THEN 500 + 100 * m ELSE 850
           /\ (h = 0 /\ m = 0) => (~hs.susp /\ hs.score = 0)
           /\ hs.score \in HeuristicScores
           /\ (hs.score = 0 <=> ~hs.susp)

\* C24 witness: four medium-risk patterns and no high-risk pattern: the score is
\* held at 0.85
C24_Witness ==
    /\ Analyzed
    /\ call.text.high = 0
    /\ call.text.all = 4
    /\ call.result.heuristic = [susp |-> TRUE, score |-> 850]

\* C25: with the LLM stage enabled and a credential configured the risk is
\* 0.4 * heuristic + 0.6 * LLM and the combined flag is the disjunction of the
\* two stages' flags; with the stage skipped or no credential the reported risk
\* and verdict are the heuristic stage's.
C25_Ensemble ==
    Combined =>
       LET hs == call.result.heuristic
           ls == call.result.llm
       IN  /\ LlmStageUsed =>
                 /\ 10 * call.result.risk_score = 4 * hs.score + 6 * ls.score
                 /\ call.result.is_suspicious => (hs.susp \/ ls.susp)
                 /\ ((hs.susp \/ ls.susp) /\ call.result.risk_score > 300)
                       => call.result.is_suspicious
           /\ ~LlmStageUsed =>
                 /\ call.result.risk_score = hs.score
                 /\ call.result.is_suspicious = hs.susp

\* C25 witness: heuristic 0.95 and a model that reports 0.5 without flagging:
\* the risk is 0.68
C25_Witness ==
    /\ Combined
    /\ LlmStageUsed
    /\ call.result.heuristic.score = 950
    /\ call.result.llm.score = 500
    /\ ~call.result.llm.susp
    /\ call.result.risk_score = 680
    /\ call.result.is_suspicious

\* C26: the reported is_suspicious is true exactly when the combined flag holds
\* and the combined score is above 0.3: never with a score of 0.3 or less, and
\* never when neither stage flagged the text.
C26_FinalDecision ==
    Combined =>
       LET hs == call.result.heuristic
           ls == call.result.llm
           flagged == IF LlmStageUsed THEN hs.susp \/ ls.susp ELSE hs.susp
       IN  /\ call.result.is_suspicious <=> (flagged /\ call.result.risk_score > 300)
           /\ call.result.risk_score <= 300 => ~call.result.is_suspicious
           /\ (~hs.susp /\ ~ls.susp) => ~call.result.is_suspicious

\* C26 witness: no stage flagged the text and the model reported the risk 1.0:
\* the combined score is 0.6 and the result is not suspicious
C26_Witness ==
    /\ Combined
    /\ LlmStageUsed
    /\ ~call.result.heuristic.susp
    /\ call.result.llm = [susp |-> FALSE, score |-> 1000, called |-> TRUE,
                          reason |-> "reason of the model"]
    /\ call.result.risk_score = 600
    /\ ~call.result.is_suspicious

\* ------------------------------------------------------- validation results
\* C23: validation supplies no value for an absent field: a document without
\* total_score or explanation is rejected, and the result of an accepted
\* document holds, field by field, the values of the document and nothing else.
C23_NoDefaults ==
    Validated =>
       /\ (call.doc.total_score = None \/ call.doc.explanation = None)
             => ~call.accepted
       /\ call.accepted =>
             /\ call.result.total_score = call.doc.total_score
             /\ call.result.category_scores = call.doc.category_scores
             /\ call.result.explanation = call.doc.explanation
             /\ call.result.strengths = call.doc.strengths

\* --------------------------------------------------- accounting of score-all
\* the places of a list of items that hold candidate c
PlacesOf(items, c) == {p \in 1 .. Len(items) : items[p].candidate_id = c}
\* the entries of an error list that one stage recorded
ErrorsOfStage(errors, stage) == {p \in 1 .. Len(errors) : errors[p].stage = stage}

\* C27: when score-all returns its result, the item list holds every candidate
\* of the company exactly once, candidates_scored is the number of scores this
\* call stored, candidates_checked is the number of candidates whose authenticity
\* result is in the item and in the stored flag, and candidates_checked plus the
\* number of authenticity errors is the number of candidates.
C27_Accounting ==
    [][ScoreAllFinish =>
         /\ Len(resp'.candidates) = Len(profile)
         /\ \A c \in Candidates : Cardinality(PlacesOf(resp'.candidates, c)) = 1
         /\ resp'.candidates_scored = Cardinality(scores' \ scores)
         /\ resp'.candidates_scored =
               Cardinality({c \in Candidates :
                   /\ StoredFor(scores, c, sa.job) = {}
                   /\ StoredFor(scores', c, sa.job) # {}})
         /\ resp'.candidates_checked =
               Cardinality({c \in Candidates :
                   \E it \in ItemsOf(resp'.candidates, c) :
                      /\ it.flag_id # None
                      /\ \E f \in FlagsFor(flags', c) :
                            /\ f.id = it.flag_id[1]
                            /\ Some(f.is_suspicious) = it.is_suspicious
                            /\ Some(f.risk_score) = it.risk_score})
         /\ resp'.candidates_checked
               + Cardinality(ErrorsOfStage(did'.errors, "authenticity"))
               = Len(profile)
      ]_vars

\* C27 witness: a score-all over two candidates returned with one candidate
\* checked and one authenticity error, one candidate scored and one scoring error
C27_Witness ==
    /\ BulkSuccess
    /\ Len(resp.candidates) = 2
    /\ resp.candidates_scored = 1
    /\ resp.candidates_checked = 1
    /\ Cardinality(ErrorsOfStage(did.errors, "authenticity")) = 1
    /\ Cardinality(ErrorsOfStage(did.errors, "scoring")) = 1

\* ------------------------------------------------------ single score, atomic
\* a step of POST /scoring/score
ScoreStep == Ready /\ resp'.op = "score"

\* C30: a single score call that ends in an error leaves the stored scores as
\* they were; it stores a row only when the scoring client returned a validated
\* result, and then exactly one row, for the requested pair, with the validated
\* total_score, which is the one the response carries.
C30_ScoreAllOrNothing ==
    [][ScoreStep =>
         /\ resp'.status # 201 => scores' = scores
         /\ scores' # scores =>
               /\ resp'.status = 201
               /\ client'.which = "service" /\ client'.out.ok
               /\ scores \subseteq scores'
               /\ \E row \in scores' \ scores :
                     /\ scores' = scores \cup {row}
                     /\ row.total_score = client'.out.total_score[1]
                     /\ row.id = resp'.score_id
                     /\ row.total_score = resp'.total_score
         /\ (client'.which = "service" /\ ~client'.out.ok) =>
               (resp'.status # 201 /\ scores' = scores)
         /\ resp'.status = 201 => scores' # scores
      ]_vars

\* C30 witness: the scoring client failed with one score already stored, the
\* call answered an error and the stored scores are that one score
C30_Witness ==
    /\ Returned("score") /\ resp.status = 400 /\ resp.detail = "Scoring error"
    /\ client.which = "service" /\ ~client.out.ok
    /\ Cardinality(scores) = 1

\* -------------------------------------------- requests side by side, claims
\* request r has just ended
Ends(r) == req[r].pc # "done" /\ req'[r].pc = "done"

\* C28: in every reachable state, with two score or score-all requests of the
\* same job interleaving where they await their completion calls and with the
\* job being deleted, the table holds at most one score per (candidate, job).
C28_OneScorePerPair ==
    \A x \in scores, y \in scores :
       (x.candidate_id = y.candidate_id /\ x.job_id = y.job_id) => x = y

\* C28 witness: two requests looked up the same pair, found no score and both
\* got a result from the scoring client; one stored its row, the other's store
\* was refused, and one row of the pair is in the table
C28_Witness ==
    \E r \in Requests, q \in Requests :
       /\ r # q
       /\ req[r].pc = "done" /\ req[r].status \in {200, 201}
       /\ [candidate_id |-> 1, total_score |-> 90] \in req[r].scored
       /\ req[q].pc = "done" /\ req[q].op = "score" /\ req[q].cand = 1
       /\ req[q].status = 500
       /\ Cardinality(StoredFor(scores, 1, "job")) = 1

\* C22: when the authenticity check of a candidate or the storing of its flag
\* fails inside score-all, an error is recorded, the candidate is not counted as
\* checked, the scoring step of the candidate takes place, and so does the
\* processing of every later candidate: the request ends with its result.
C22_AuthenticityFailureIsolated ==
    \A r \in Requests : \A c \in Candidates :
       (req[r].op = "scoreAll" /\ ErrorEntry("authenticity", c) \in req[r].errors) =>
          /\ c \notin req[r].checked
          /\ c \in req[r].visited
          /\ req[r].pc = "done" =>
                /\ req[r].status = 200
                /\ \A d \in Candidates : d \in req[r].visited

\* C29: when a score-all request ends, every candidate that it scored has its
\* score stored for the pair with that total_score, and every candidate whose
\* authenticity check it completed has its flag stored, whatever failed for the
\* candidates before or after it.
C29_NoRollbackOfOthers ==
    [][\A r \in Requests :
          (Ends(r) /\ req'[r].op = "scoreAll") =>
             /\ \A s \in req'[r].scored :
                   \E row \in StoredFor(scores', s.candidate_id, req'[r].job) :
                      row.total_score = s.total_score
             /\ \A c \in req'[r].checked : FlagsFor(flags', c) # {}
      ]_vars

====
